---- MODULE Spec2Model ----
(***************************************************************************)
(* Model of the two real-time drivers of the Shruti firmware:              *)
(*   - hardware_midi::MidiStreamParser   (src/hardware/midi/midi.h)         *)
(*   - hardware_io::Display              (src/hardware/io/devices/          *)
(*                                        sparkfun_ser_lcd.h)               *)
(* Bytes are naturals in 0..255; hexadecimal values of the source are      *)
(* given in comments next to their decimal form.                           *)
(***************************************************************************)
EXTENDS Integers, Sequences, FiniteSets, TLC

VARIABLES
  \* ---- MidiStreamParser (midi.h:59-62)
  running_status_,      \* last status byte, 0 = none
  data_,                \* uint8_t data_[3], indexed 0..2
  data_size_,
  expected_data_size_,
  \* ---- observation of the parser
  byte,                 \* argument of the last PushByte, NoByte before any
  events,               \* Device:: calls made by the last PushByte, in order
  slot,                 \* index of data_ written by the last PushByte, NoSlot if none
  pushed,               \* recorded streams only: the bytes pushed so far
  log,                  \* recorded streams only: log[i] = events of the i-th push
  scenario,             \* 0 = free-running stream, i > 0 = recorded stream over Scenarios[i]
  \* ---- Display (sparkfun_ser_lcd.h:200-209)
  local_,               \* what the display ought to show, indexed 0..lcd_buffer_size-1
  remote_,              \* what the display currently shows
  scan_position_,
  scan_position_last_write_,
  blink_,
  blink_clock_,
  cursor_position_,
  status_,
  \* ---- DisplaySerialOutput and observation of the display
  tx_buffered,          \* bytes waiting in the serial output buffer
  emitted,              \* bytes written to the serial output by the last Update
  op,                   \* the last operation called on Display
  calls,                \* number of writer calls made so far
  \* ---- history of the display, kept by the specification that reads it
  ticks,                \* Updates that ran since the last writer call, up to lcd_buffer_size
  changed,              \* the resolved page changed during those Updates
  met,                  \* remote_ equalled the resolved page at some point since then
  since_flip,           \* Updates that ran since blink_ was last inverted
  since_reset,          \* Updates that ran since the last inversion or set_status
  recent,               \* the cells examined by the last lcd_buffer_size Updates that ran
  run,                  \* Updates that ran since the last set_status, up to lcd_buffer_size
                        \* (lcd_buffer_size as long as set_status was never called)
  \* ---- the display module at the end of the serial line
  lcd,                  \* the character it shows at each cell
  lcd_address,          \* its write address, row * 64 + column
  sent                  \* the cells Update transmitted at least once

midiVars == <<running_status_, data_, data_size_, expected_data_size_,
              byte, events, slot, pushed, log, scenario>>

displayVars == <<local_, remote_, scan_position_, scan_position_last_write_,
                 blink_, blink_clock_, cursor_position_, status_,
                 tx_buffered, emitted, op, calls>>

convergenceVars == <<ticks, changed, met>>
blinkVars == <<since_flip, since_reset>>
scanVars == <<recent, run>>
mirrorVars == <<lcd, lcd_address, sent>>
historyVars == <<convergenceVars, blinkVars, scanVars, mirrorVars>>

vars == <<midiVars, displayVars, historyVars>>

----------------------------------------------------------------------------
(* Bounds of the model *)

\* Longest recorded byte stream.
MaxPush == 5

\* The display is 2^LogWidth characters wide (16 in the source's default).
LogWidth == 1

\* The blink clock has BlinkBits bits (7 in the source: kLcdCursorBlinkRate = 0x7f).
BlinkBits == 3

\* Writer calls (Print, set_cursor_position, set_status) in one run.
MaxCalls == 2

\* Calls of Print in a run of Print alone.
MaxPrints == 3

NoByte == -1
NoSlot == -1

----------------------------------------------------------------------------
(* MidiStreamParser *)

\* byte & 0xf0, byte & 0x0f
Hi(b) == b - (b % 16)
Lo(b) == b % 16

\* A call of one static method of Device, with its arguments.
Ev(name, args) == [op |-> name, args |-> args]

\* Off by one: 0xf8 taken for a status byte.
IsRealtime_Above0xf8(b) == b > 248

\* if (byte >= 0xf8)
IsRealtime(b) == b >= 248

\* if (byte >= 0x80)
IsStatus(b) == b >= 128

\* Three data bytes expected after 0xf1 and 0xf2.
ExpectedDataSize_Three(b) ==
  IF Hi(b) = 240 /\ Lo(b) > 0 /\ Lo(b) < 3 THEN 3
  ELSE IF Hi(b) \in {192, 208} \/ b \in {240, 243} THEN 1
  ELSE IF Hi(b) = 240 THEN 0
  ELSE 2

\* One data byte expected after 0xen.
ExpectedDataSize_ShortPitchBend(b) ==
  IF Hi(b) \in {128, 144, 160, 176} \/ b \in {241, 242} THEN 2
  ELSE IF Hi(b) = 240 /\ Lo(b) >= 4 THEN 0
  ELSE 1

\* The switch (hi) of PushByte that sets expected_data_size_ (default 1).
ExpectedDataSize(b) ==
  LET hi == Hi(b)
      lo == Lo(b)
  IN  CASE hi \in {128, 144, 160, 176} -> 2      \* 0x80 0x90 0xa0 0xb0
        [] hi \in {192, 208}           -> 1      \* 0xc0 0xd0
        [] hi = 224                    -> 2      \* 0xe0
        [] hi = 240                    ->        \* 0xf0
             IF lo > 0 /\ lo < 3 THEN 2
             ELSE IF lo >= 4 THEN 0
             ELSE 1
        [] OTHER                       -> 1

\* The implicit end of a sysex run left out.
SysExEndIfOpen_Never(rs) == <<>>

\* if (running_status_ == 0xf0) Device::SysExEnd();
SysExEndIfOpen(rs) == IF rs = 240 THEN <<Ev("SysExEnd", <<>>)>> ELSE <<>>

\* No SysExStart call on entering 0xf0.
SysExStartIfEntered_Never(rs) == <<>>

\* running_status_ = byte; if (running_status_ == 0xf0) Device::SysExStart();
SysExStartIfEntered(rs) == IF rs = 240 THEN <<Ev("SysExStart", <<>>)>> ELSE <<>>

\* Running status dropped after every message.
ClearsRunningStatus_AnyStatus(rs) == rs >= 128

\* Running status kept across system common messages.
ClearsRunningStatus_Never(rs) == FALSE

\* if (running_status_ > 0xf0) { expected_data_size_ = 0; running_status_ = 0; }
ClearsRunningStatus(rs) == rs > 240

\* The channel-mode switch left out.
ControlChangeEvent_NoChannelMode(lo, d) == Ev("ControlChange", <<lo, d[0], d[1]>>)

\* case 0xb0: switch (data_[0]) of MessageReceived.
ControlChangeEvent(lo, d) ==
  CASE d[0] = 120 -> Ev("AllSoundOff", <<lo>>)                 \* 0x78
    [] d[0] = 121 -> Ev("ResetAllControllers", <<lo>>)         \* 0x79
    [] d[0] = 122 -> Ev("LocalControl", <<lo, d[1]>>)          \* 0x7a
    [] d[0] = 123 -> Ev("AllNotesOff", <<lo>>)                 \* 0x7b
    [] d[0] = 124 -> Ev("OmniModeOff", <<lo>>)                 \* 0x7c
    [] d[0] = 125 -> Ev("OmniModeOn", <<lo>>)                  \* 0x7d
    [] d[0] = 126 -> Ev("MonoModeOn", <<lo, d[1]>>)            \* 0x7e
    [] d[0] = 127 -> Ev("PolyModeOn", <<lo>>)                  \* 0x7f
    [] OTHER      -> Ev("ControlChange", <<lo, d[0], d[1]>>)

\* case 0x9 without its break, falling through to Start.
SystemEvents_Fallthrough(lo, d) ==
  CASE lo = 0  -> <<Ev("SysExByte", <<d[0]>>)>>
    [] lo = 7  -> <<Ev("SysExEnd", <<>>)>>
    [] lo = 8  -> <<Ev("Clock", <<>>)>>
    [] lo \in {9, 10} -> <<Ev("Start", <<>>)>>
    [] lo = 11 -> <<Ev("Continue", <<>>)>>
    [] lo = 12 -> <<Ev("Stop", <<>>)>>
    [] lo = 14 -> <<Ev("ActiveSensing", <<>>)>>
    [] lo = 15 -> <<Ev("Reset", <<>>)>>
    [] OTHER   -> <<>>

\* case 0xf0: switch (lo) of MessageReceived.
SystemEvents(lo, d) ==
  CASE lo = 0  -> <<Ev("SysExByte", <<d[0]>>)>>
    [] lo \in 1..6 -> <<>>
    [] lo = 7  -> <<Ev("SysExEnd", <<>>)>>
    [] lo = 8  -> <<Ev("Clock", <<>>)>>
    [] lo = 9  -> <<>>
    [] lo = 10 -> <<Ev("Start", <<>>)>>
    [] lo = 11 -> <<Ev("Continue", <<>>)>>
    [] lo = 12 -> <<Ev("Stop", <<>>)>>
    [] lo = 14 -> <<Ev("ActiveSensing", <<>>)>>
    [] lo = 15 -> <<Ev("Reset", <<>>)>>
    [] OTHER   -> <<>>                              \* 0xd: no case

\* The conventional mapping: 0x8n is always NoteOff.
Status80Event_Conventional(lo, d) == Ev("NoteOff", <<lo, d[0], d[1]>>)

\* case 0x80 of MessageReceived.
Status80Event(lo, d) ==
  IF d[1] # 0 THEN Ev("NoteOn", <<lo, d[0], d[1]>>)
  ELSE Ev("NoteOff", <<lo, d[0], 0>>)

\* case 0x90 of MessageReceived.
Status90Event(lo, d) == Ev("NoteOff", <<lo, d[0], d[1]>>)

\* MessageReceived(status): the Device:: calls it makes, reading data d.
MessageReceived(status, d) ==
  LET hi == Hi(status)
      lo == Lo(status)
      bozo == IF status = 0 THEN <<Ev("BozoByte", <<d[0]>>)>> ELSE <<>>
  IN  bozo \o
      (CASE hi = 128 -> <<Status80Event(lo, d)>>
         [] hi = 144 -> <<Status90Event(lo, d)>>
         [] hi = 160 -> <<Ev("Aftertouch", <<lo, d[0], d[1]>>)>>
         [] hi = 176 -> <<ControlChangeEvent(lo, d)>>
         [] hi = 192 -> <<Ev("ProgramChange", <<lo, d[0]>>)>>
         [] hi = 208 -> <<Ev("Aftertouch", <<lo, d[0]>>)>>
         [] hi = 224 -> <<Ev("PitchBend", <<lo, d[0] * 128 + d[1]>>)>>
         [] hi = 240 -> SystemEvents(lo, d)
         [] OTHER    -> <<>>)

\* data_[data_size_++] = byte; data_ has 3 slots.
Store(d, i, b) == IF i \in 0..2 THEN [d EXCEPT ![i] = b] ELSE d

\* The parser's fields as one record.
ParserState(rs, d, ds, eds) ==
  [running_status_ |-> rs, data_ |-> d, data_size_ |-> ds,
   expected_data_size_ |-> eds]

\* The data count left as it was by a status byte.
DataSizeAfter_Kept(status, size) == IF status THEN size ELSE (size + 1) % 256

\* data_size_ = 0 for a status byte, data_size_++ for a data byte.
DataSizeAfter(status, size) == IF status THEN 0 ELSE (size + 1) % 256

\* PushByte(byte) as a function of the parser's fields: the fields after the
\* call, the Device:: calls made, and the data_ index written.
PushByteStep(st, b) ==
  IF IsRealtime(b)
  THEN [st |-> st, events |-> MessageReceived(b, st.data_), slot |-> NoSlot]
  ELSE
    LET status == IsStatus(b)
        ds1  == DataSizeAfter(status, st.data_size_)
        eds1 == IF status THEN ExpectedDataSize(b) ELSE st.expected_data_size_
        d1   == IF status THEN st.data_ ELSE Store(st.data_, st.data_size_, b)
        rs1  == IF status THEN b ELSE st.running_status_
        pre  == IF status
                THEN SysExEndIfOpen(st.running_status_) \o SysExStartIfEntered(rs1)
                ELSE <<>>
        complete == ds1 >= eds1
        clear == complete /\ ClearsRunningStatus(rs1)
    IN  [st |-> ParserState(IF clear THEN 0 ELSE rs1,
                            d1,
                            IF complete THEN 0 ELSE ds1,
                            IF clear THEN 0 ELSE eds1),
         events |-> pre \o (IF complete THEN MessageReceived(rs1, d1) ELSE <<>>),
         slot |-> IF status THEN NoSlot ELSE st.data_size_]

Parser == ParserState(running_status_, data_, data_size_, expected_data_size_)

\* Bytes of the free-running stream.  Status bytes: every status 0x80..0xe0
\* on the first and the last channel, and all of 0xf0..0xff.  Data bytes: the
\* extremes, a note, and the channel-mode boundary 0x77/0x78.
Channels == {0, 15}
StatusBytes == {hi + ch : hi \in {128, 144, 160, 176, 192, 208, 224}, ch \in Channels}
               \cup (240..255)
DataBytes == {0, 1, 64, 119, 120, 127}
Bytes == StatusBytes \cup DataBytes

\* Recorded streams: each draws its bytes from one small alphabet, and is at
\* most len bytes long.
Scenarios ==
  << [bytes |-> {144, 0, 60, 64, 127}, len |-> MaxPush],        \* 0x90 and notes
     [bytes |-> {128, 0, 60, 127, 248}, len |-> MaxPush],       \* 0x80, clock
     [bytes |-> {143, 160, 0, 64, 250}, len |-> MaxPush],       \* 0x8f 0xa0, start
     [bytes |-> {176, 191, 0, 123, 127}, len |-> MaxPush],      \* 0xb0 0xbf
     [bytes |-> {224, 0, 1, 127, 249}, len |-> MaxPush],        \* 0xe0, 0xf9
     [bytes |-> {192, 208, 153, 0, 64}, len |-> MaxPush],       \* 0xc0 0xd0 0x99
     [bytes |-> {240, 247, 248, 144, 64}, len |-> MaxPush],     \* sysex, clock
     [bytes |-> {241, 243, 246, 0, 64}, len |-> MaxPush],       \* 0xf1 0xf3 0xf6
     [bytes |-> {242, 244, 245, 247, 100}, len |-> MaxPush],    \* 0xf2 0xf4 0xf5 0xf7
     [bytes |-> {176, 0} \cup (118..127), len |-> MaxPush - 2] >>  \* 0xb0, 0x76..0x7f

\* The uninitialised data_ of the constructor (midi.h:69-73 does not set it).
InitialData == { [i \in 0..2 |-> 0], [i \in 0..2 |-> 170] }

MidiInit ==
  /\ running_status_ = 0
  /\ data_size_ = 0
  /\ expected_data_size_ = 0
  /\ data_ \in InitialData
  /\ byte = NoByte
  /\ events = <<>>
  /\ slot = NoSlot
  /\ pushed = <<>>
  /\ log = <<>>

\* void MidiStreamParser<Device>::PushByte(uint8_t byte)
PushByte(b) ==
  LET r == PushByteStep(Parser, b)
  IN  /\ running_status_' = r.st.running_status_
      /\ data_' = r.st.data_
      /\ data_size_' = r.st.data_size_
      /\ expected_data_size_' = r.st.expected_data_size_
      /\ byte' = b
      /\ events' = r.events
      /\ slot' = r.slot

\* A caller feeding an unbounded stream, nothing recorded.
Feed ==
  /\ \E b \in Bytes : PushByte(b)
  /\ UNCHANGED <<pushed, log, scenario>>

\* A caller feeding a short stream, every byte and its events recorded.
FeedRecorded ==
  /\ Len(pushed) < Scenarios[scenario].len
  /\ \E b \in Scenarios[scenario].bytes :
       /\ PushByte(b)
       /\ pushed' = Append(pushed, b)
       /\ log' = Append(log, events')
  /\ UNCHANGED scenario

----------------------------------------------------------------------------
(* Display *)

RECURSIVE BitAnd(_, _)
BitAnd(x, y) ==
  IF x = 0 \/ y = 0 THEN 0
  ELSE (x % 2) * (y % 2) + 2 * BitAnd(x \div 2, y \div 2)

RECURSIVE BitOr(_, _)
BitOr(x, y) ==
  IF x = 0 THEN y
  ELSE IF y = 0 THEN x
  ELSE (IF x % 2 = 1 \/ y % 2 = 1 THEN 1 ELSE 0) + 2 * BitOr(x \div 2, y \div 2)

\* ~x in a 16-bit int, the type the operands of & are promoted to.
BitNot16(x) == 65535 - x

\* Template parameters width and height, and the enum of the class.
width == 2 ^ LogWidth
height == 2
lcd_buffer_size == width * height
lcd_buffer_size_wrap == width * height - 1

kLcdNoCursor == 255
kLcdCursorBlinkRate == 2 ^ BlinkBits - 1
kLcdCursor == 255

\* Size of the output buffer of DisplaySerialOutput (its last template argument).
kTxBufferSize == 8

\* DisplaySerialOutput::writable()
Writable(buffered) == kTxBufferSize - buffered

\* The guard of Update one byte short.
TooFullToUpdate_Two(buffered) == kTxBufferSize - buffered < 2

\* if (DisplaySerialOutput::writable() < 3) return;
TooFullToUpdate_Never(buffered) == FALSE
TooFullToUpdate(buffered) == Writable(buffered) < 3

\* Print: "Do not write control characters."
Sanitize_Below32(character) ==
  IF character = 124 \/ character = 254 \/ character < 32 THEN 32 ELSE character
Sanitize(character) ==
  IF character = 124 \/ character = 254 \/ (character >= 8 /\ character < 32)
  THEN 32
  ELSE character

\* Print: while (*text && row) { *destination++ = ...; ++text; --row; }
\* text is the memory at the pointer, its terminating null included.
RECURSIVE PrintLoop(_, _, _, _)
PrintLoop(page, destination, text, row) ==
  IF Head(text) = 0 \/ row = 0
  THEN page
  ELSE PrintLoop([page EXCEPT ![destination] = Sanitize(Head(text))],
                 destination + 1, Tail(text), row - 1)

\* The copy loop started at local_, whatever the line.
PrintedPage_RowZero(page, line, text) ==
  PrintLoop(page, 0, text, width)

\* Print(line, text): local_ after the copy loop, started with row = width at
\* destination = local_ + (line << Log2<width>::value).
PrintedPage(page, line, text) ==
  PrintLoop(page, line * 2 ^ LogWidth, text, width)

\* Update: blink_clock_ = (blink_clock_ + 1) & kLcdCursorBlinkRate;
NextBlinkClock_HalfPeriod(clock) == BitAnd(clock + 1, kLcdCursorBlinkRate \div 2)
NextBlinkClock(clock) == BitAnd(clock + 1, kLcdCursorBlinkRate)

\* Update: if (blink_clock_ == 0) { ...; status_ = 0; }
StatusAfterClock_Kept(clock, status) == status
StatusAfterClock(clock, status) == IF clock = 0 THEN 0 ELSE status

\* Update: scan_position_ = (scan_position_ + 1) & lcd_buffer_size_wrap;
NextScanPosition_Stride(scan) == BitAnd(scan + 2, lcd_buffer_size_wrap)
NextScanPosition(scan) == BitAnd(scan + 1, lcd_buffer_size_wrap)

\* set_status: scan_position_ = local_[0] == ' ' ? 0 : (width - 1);
StatusScanPosition(page) == IF page[0] = 32 THEN 0 ELSE width - 1

\* Update: "Determine which character to show at the current position."
ResolvedCharacter_StatusFirst(scan, cursor, blink, status, page) ==
  IF status # 0 /\ (scan = 0 \/ scan = width - 1) /\ page[scan] = 32
  THEN status - 1
  ELSE IF scan = cursor /\ blink # 0 THEN kLcdCursor ELSE page[scan]
ResolvedCharacter(scan, cursor, blink, status, page) ==
  IF scan = cursor /\ blink # 0
  THEN kLcdCursor
  ELSE IF status # 0 /\ (scan = 0 \/ scan = width - 1) /\ page[scan] = 32
       THEN status - 1
       ELSE page[scan]

\* Update: if (character != remote_[scan_position_] || scan_position_ == cursor_position_)
MustTransmit_Always(character, scan, cursor, mirror) == TRUE
MustTransmit_CursorOnly(character, scan, cursor, mirror) == scan = cursor
MustTransmit(character, scan, cursor, mirror) ==
  character # mirror[scan] \/ scan = cursor

\* Update: the new character is not in the first column.
FollowsLastWrite_NotFirstColumn(scan, last) == BitAnd(scan, width - 1) # 0

\* Update: the new character is just after the previous one, on the same line.
FollowsLastWrite_AnyColumn(scan, last) == scan = last + 1
FollowsLastWrite(scan, last) ==
  scan = last + 1 /\ BitAnd(scan, width - 1) # 0

\* Update: the argument of the cursor move command.
CursorMoveArgument_NoShift(scan) == BitOr(128, scan)
CursorMoveArgument(scan) ==
  LET shifted == BitAnd(scan, BitNot16(width - 1)) * 2 ^ (6 - LogWidth)
  IN  BitOr(BitOr(128, shifted % 256), BitAnd(scan, width - 1))

\* Update: the bytes passed to DisplaySerialOutput::Overwrite, in order.
TransmittedBytes_NoEscape(character, scan, last) ==
  IF FollowsLastWrite(scan, last)
  THEN <<character>>
  ELSE <<CursorMoveArgument(scan), character>>
TransmittedBytes(character, scan, last) ==
  IF FollowsLastWrite(scan, last)
  THEN <<character>>
  ELSE <<254, CursorMoveArgument(scan), character>>

\* Arguments of the writer calls.
Texts == { <<65, 0, 70, 0>>, <<7, 124, 67, 68, 69, 0>> }
\* More texts, for Print alone: control characters, characters that Print
\* keeps, the empty string.
PrintTexts ==
  Texts \cup { <<254, 10, 0>>, <<31, 127, 0>>, <<8, 255, 0>>, <<0>>,
               <<32, 126, 9, 124, 0>>, <<66, 1, 0>> }
Lines == 0..(height - 1)
Cursors == {kLcdNoCursor, 0}
Statuses == {42}
\* The same with the largest argument, whose increment does not fit status_.
WrapStatuses == Statuses \cup {255}
\* The arguments equal to the command prefixes of the serial protocol
\* (0xfe and 0x7c, the bytes WriteCommand and SetBrightness send first).
EscapeStatuses == {254, 124}

\* static void Init(), and the zero-initialised statics it does not set.
DisplayInit ==
  /\ local_ = [i \in 0..(lcd_buffer_size - 1) |-> 32]
  /\ remote_ = [i \in 0..(lcd_buffer_size - 1) |-> 63]
  /\ scan_position_last_write_ = 255
  /\ blink_ = 0
  /\ cursor_position_ = 255
  /\ scan_position_ = 0
  /\ blink_clock_ = 0
  /\ status_ = 0
  /\ tx_buffered = 0
  /\ emitted = <<>>
  /\ op = "Init"
  /\ calls = 0

\* static void Print(uint8_t line, const char* text), line < height
DisplayPrint(line, text) ==
  /\ local_' = PrintedPage(local_, line, text)
  /\ op' = "Print"
  /\ emitted' = <<>>
  /\ UNCHANGED <<remote_, scan_position_, scan_position_last_write_, blink_,
                 blink_clock_, cursor_position_, status_, tx_buffered>>

\* static inline void set_cursor_position(uint8_t cursor)
set_cursor_position(cursor) ==
  /\ cursor_position_' = cursor
  /\ op' = "set_cursor_position"
  /\ emitted' = <<>>
  /\ UNCHANGED <<local_, remote_, scan_position_, scan_position_last_write_,
                 blink_, blink_clock_, status_, tx_buffered>>

\* static inline void set_status(uint8_t status)
set_status(status) ==
  /\ blink_clock_' = 0
  /\ status_' = (status + 1) % 256
  /\ scan_position_' = StatusScanPosition(local_)
  /\ op' = "set_status"
  /\ emitted' = <<>>
  /\ UNCHANGED <<local_, remote_, scan_position_last_write_, blink_,
                 cursor_position_, tx_buffered>>

\* static void Update()
Update ==
  /\ op' = "Update"
  /\ IF TooFullToUpdate(tx_buffered)
     THEN /\ emitted' = <<>>
          /\ UNCHANGED <<local_, remote_, scan_position_,
                         scan_position_last_write_, blink_, blink_clock_,
                         cursor_position_, status_, tx_buffered>>
     ELSE LET clock == NextBlinkClock(blink_clock_)
              blink == IF clock = 0 THEN 255 - blink_ ELSE blink_
              status == StatusAfterClock(clock, status_)
              character == ResolvedCharacter(scan_position_, cursor_position_,
                                             blink, status, local_)
              transmit == MustTransmit(character, scan_position_,
                                       cursor_position_, remote_)
              bytes == IF transmit
                       THEN TransmittedBytes(character, scan_position_,
                                             scan_position_last_write_)
                       ELSE <<>>
          IN  /\ blink_clock_' = clock
              /\ blink_' = blink
              /\ status_' = status
              /\ emitted' = bytes
              /\ tx_buffered' = tx_buffered + Len(bytes)
              /\ remote_' = IF transmit
                            THEN [remote_ EXCEPT ![scan_position_] = character]
                            ELSE remote_
              /\ scan_position_last_write_' =
                   IF transmit THEN scan_position_ ELSE scan_position_last_write_
              /\ scan_position_' = NextScanPosition(scan_position_)
              /\ UNCHANGED <<local_, cursor_position_>>

\* static inline void Tick(): the serial output shifts one buffered byte out.
Tick ==
  /\ tx_buffered > 0
  /\ tx_buffered' = tx_buffered - 1
  /\ op' = "Tick"
  /\ emitted' = <<>>
  /\ UNCHANGED <<local_, remote_, scan_position_, scan_position_last_write_,
                 blink_, blink_clock_, cursor_position_, status_>>

----------------------------------------------------------------------------
(* History of the display *)

Cells == 0..(lcd_buffer_size - 1)

\* One blink period: the Updates between two wraps of blink_clock_.
BlinkPeriod == kLcdCursorBlinkRate + 1

\* The character Update resolves for every cell of the page.
ResolvedPage(cursor, blink, status, page) ==
  [i \in Cells |-> ResolvedCharacter(i, cursor, blink, status, page)]

\* The step is a call of Print, set_cursor_position or set_status.
WriterCalled == op' \in {"Print", "set_cursor_position", "set_status"}

\* The step is an Update that did not return at the writable() test.
Ran == op' = "Update" /\ ~TooFullToUpdate(tx_buffered)

Capped(n, cap) == IF n < cap THEN n ELSE cap

\* The write addresses of the display module: row * 64 + column, of which
\* the columns below width are shown.
\* The write address before the first cursor move command: off the screen.
UnknownAddress == 127
Shown(address) == address \div 64 < height /\ address % 64 < width
CellOf(address) == (address \div 64) * width + (address % 64)

\* The display module receiving a character byte: it stores the character at
\* its write address.
DisplayStore(cells, address, character) ==
  IF Shown(address)
  THEN [cells EXCEPT ![CellOf(address)] = character]
  ELSE cells

\* The display module receiving the bytes of one transmit: a cursor move
\* command (0xfe, 0x80 | address) sets the write address, the character byte
\* is stored there and the write address advances by one.
DisplayReceive(cells, address, bytes) ==
  LET target == IF Len(bytes) = 3 /\ bytes[1] = 254 /\ bytes[2] >= 128
                THEN bytes[2] - 128
                ELSE address
  IN  [cells |-> DisplayStore(cells, target, bytes[Len(bytes)]),
       address |-> (target + 1) % 128]

HistoryInit ==
  /\ ticks = 0
  /\ changed = FALSE
  /\ met = (remote_ = ResolvedPage(cursor_position_, blink_, status_, local_))
  /\ since_flip = 0
  /\ since_reset = 0
  /\ recent = <<>>
  /\ run = lcd_buffer_size
  /\ lcd = [cell \in Cells |-> NoByte]
  /\ lcd_address = UnknownAddress
  /\ sent = {}

\* The passes of Update between two writer calls.
ObserveConvergence ==
  LET before == ResolvedPage(cursor_position_, blink_, status_, local_)
      page == ResolvedPage(cursor_position_', blink_', status_', local_')
  IN  IF WriterCalled
      THEN /\ ticks' = 0
           /\ changed' = FALSE
           /\ met' = (remote_' = page)
      ELSE IF Ran
      THEN /\ ticks' = Capped(ticks + 1, lcd_buffer_size)
           /\ changed' = (changed \/ page # before)
           /\ met' = (met \/ (ticks < lcd_buffer_size /\ remote_' = page))
      ELSE UNCHANGED convergenceVars

\* The Updates that ran since blink_ was inverted and since blink_clock_ was
\* set to 0 by Init or set_status, both counted up to one blink period.
ObserveBlink ==
  /\ since_flip' = IF ~Ran THEN since_flip
                   ELSE IF blink_' # blink_ THEN 0
                   ELSE Capped(since_flip + 1, BlinkPeriod)
  /\ since_reset' = IF op' = "set_status" THEN 0
                    ELSE IF Ran THEN Capped(since_reset + 1, BlinkPeriod)
                    ELSE since_reset

\* The cells examined by the last lcd_buffer_size Updates that ran, and the
\* number of Updates that ran since the last set_status.
ObserveScan ==
  /\ recent' = IF ~Ran THEN recent
               ELSE IF Len(recent) < lcd_buffer_size
               THEN Append(recent, scan_position_)
               ELSE Append(Tail(recent), scan_position_)
  /\ run' = IF op' = "set_status" THEN 0
            ELSE IF Ran THEN Capped(run + 1, lcd_buffer_size)
            ELSE run

\* The display module fed the bytes of each Update, in order, Update being
\* the only writer of the serial output.
ObserveMirror ==
  IF emitted' = <<>>
  THEN UNCHANGED mirrorVars
  ELSE LET received == DisplayReceive(lcd, lcd_address, emitted')
       IN  /\ lcd' = received.cells
           /\ lcd_address' = received.address
           /\ sent' = sent \cup {scan_position_}

----------------------------------------------------------------------------
(* Specifications *)

\* The parser fed an unbounded stream.
Init == MidiInit /\ scenario = 0 /\ DisplayInit /\ HistoryInit
Next == Feed /\ UNCHANGED <<displayVars, historyVars>>
Spec == Init /\ [][Next]_vars

\* The parser fed recorded streams.
InitRecorded ==
  MidiInit /\ scenario \in 1..Len(Scenarios) /\ DisplayInit /\ HistoryInit
NextRecorded == FeedRecorded /\ UNCHANGED <<displayVars, historyVars>>
SpecRecorded == InitRecorded /\ [][NextRecorded]_vars

\* The display driven by its writers, the update timer and the serial output.
InitDisplay ==
  /\ MidiInit
  /\ data_ = [i \in 0..2 |-> 0]
  /\ scenario = 0
  /\ DisplayInit
  /\ HistoryInit
\* One writer call, within the budget of the run, set_status taking its
\* argument from flags.
WriterCall(flags) ==
  /\ calls < MaxCalls
  /\ calls' = calls + 1
  /\ \/ \E line \in Lines, text \in Texts : DisplayPrint(line, text)
     \/ \E cursor \in Cursors : set_cursor_position(cursor)
     \/ \E status \in flags : set_status(status)
Writer == WriterCall(Statuses)
NextDisplay ==
  \/ Writer /\ UNCHANGED <<midiVars, historyVars>>
  \/ Update /\ UNCHANGED <<calls, midiVars, historyVars>>
  \/ Tick /\ UNCHANGED <<calls, midiVars, historyVars>>
SpecDisplay == InitDisplay /\ [][NextDisplay]_vars

\* Print called alone, on every text of PrintTexts.
NextPrint ==
  /\ calls < MaxPrints
  /\ calls' = calls + 1
  /\ \E line \in Lines, text \in PrintTexts : DisplayPrint(line, text)
  /\ UNCHANGED <<midiVars, historyVars>>
SpecPrint == InitDisplay /\ [][NextPrint]_vars

\* The display, with the history of its passes between writer calls.
NextConvergence ==
  \/ Writer /\ ObserveConvergence /\ UNCHANGED <<midiVars, blinkVars, scanVars, mirrorVars>>
  \/ Update /\ ObserveConvergence
            /\ UNCHANGED <<calls, midiVars, blinkVars, scanVars, mirrorVars>>
  \/ Tick /\ ObserveConvergence
          /\ UNCHANGED <<calls, midiVars, blinkVars, scanVars, mirrorVars>>
SpecConvergence == InitDisplay /\ [][NextConvergence]_vars

\* The display, with the history of its blink clock.
BlinkUpdate ==
  Update /\ ObserveBlink /\ UNCHANGED <<calls, midiVars, convergenceVars, scanVars, mirrorVars>>
BlinkTick ==
  Tick /\ ObserveBlink /\ UNCHANGED <<calls, midiVars, convergenceVars, scanVars, mirrorVars>>
NextBlink ==
  \/ Writer /\ ObserveBlink /\ UNCHANGED <<midiVars, convergenceVars, scanVars, mirrorVars>>
  \/ BlinkUpdate
  \/ BlinkTick
SpecBlink == InitDisplay /\ [][NextBlink]_vars

\* The same, with the update timer and the serial output never stopping:
\* Update is called from a timer interrupt and the UART keeps shifting bytes out.
SpecBlinkFair ==
  SpecBlink /\ WF_vars(BlinkUpdate) /\ WF_vars(BlinkTick)

\* The display, with the history of its scan.
NextScan ==
  \/ WriterCall(WrapStatuses) /\ ObserveScan
       /\ UNCHANGED <<midiVars, convergenceVars, blinkVars, mirrorVars>>
  \/ Update /\ ObserveScan
            /\ UNCHANGED <<calls, midiVars, convergenceVars, blinkVars, mirrorVars>>
  \/ Tick /\ ObserveScan
          /\ UNCHANGED <<calls, midiVars, convergenceVars, blinkVars, mirrorVars>>
SpecScan == InitDisplay /\ [][NextScan]_vars

\* The display and the display module that receives its bytes.
NextMirror ==
  \/ Writer /\ ObserveMirror
       /\ UNCHANGED <<midiVars, convergenceVars, blinkVars, scanVars>>
  \/ Update /\ ObserveMirror
            /\ UNCHANGED <<calls, midiVars, convergenceVars, blinkVars, scanVars>>
  \/ Tick /\ ObserveMirror
          /\ UNCHANGED <<calls, midiVars, convergenceVars, blinkVars, scanVars>>
SpecMirror == InitDisplay /\ [][NextMirror]_vars

\* The display, set_status called with the command prefixes as arguments.
NextEscape ==
  \/ WriterCall(EscapeStatuses) /\ UNCHANGED <<midiVars, historyVars>>
  \/ Update /\ UNCHANGED <<calls, midiVars, historyVars>>
  \/ Tick /\ UNCHANGED <<calls, midiVars, historyVars>>
SpecEscape == InitDisplay /\ [][NextEscape]_vars

----------------------------------------------------------------------------
(* Helpers of the properties *)

\* The data buffer holding d0, d1 in its first two slots.
DataOf(d0, d1) == [i \in 0..2 |-> IF i = 0 THEN d0 ELSE IF i = 1 THEN d1 ELSE 0]

\* push i of a recorded stream is followed by at least n more pushes, all data bytes
DataFollow(i, n) ==
  /\ i + n <= Len(pushed)
  /\ \A k \in 1..n : pushed[i + k] < 128

RECURSIVE Flatten(_)
Flatten(ss) == IF ss = <<>> THEN <<>> ELSE Head(ss) \o Flatten(Tail(ss))

\* The Device:: calls a fresh parser makes on a whole byte sequence.
RECURSIVE RunEvents(_, _)
RunEvents(st, bs) ==
  IF bs = <<>> THEN <<>>
  ELSE LET r == PushByteStep(st, Head(bs))
       IN  r.events \o RunEvents(r.st, Tail(bs))

NotRealtimeByte(b) == b < 248
NotRealtimeEvent(e) ==
  e.op \notin {"Clock", "Start", "Continue", "Stop", "ActiveSensing", "Reset"}

----------------------------------------------------------------------------
(* Properties of MidiStreamParser *)

\* C1: running status.  In a recorded stream, a status byte S of 0x8n, 0x9n,
\* 0xan, 0xbn or 0xen followed by four data bytes D1 D2 D1' D2' makes the
\* parser emit exactly two messages: nothing on D1 and D1', the message
\* decoded from (S, D1, D2) on D2 and the one decoded from (S, D1', D2') on
\* D2'; running_status_ is still S after D2'.
C1_RunningStatus ==
  \A i \in 1..Len(pushed) :
    (Hi(pushed[i]) \in {128, 144, 160, 176, 224} /\ DataFollow(i, 4)) =>
      /\ log[i + 1] = <<>>
      /\ log[i + 2] = MessageReceived(pushed[i], DataOf(pushed[i + 1], pushed[i + 2]))
      /\ Len(log[i + 2]) = 1
      /\ log[i + 3] = <<>>
      /\ log[i + 4] = MessageReceived(pushed[i], DataOf(pushed[i + 3], pushed[i + 4]))
      /\ Len(log[i + 4]) = 1
      /\ (i + 4 = Len(pushed) => running_status_ = pushed[i])

\* Two pitch bends under one 0xe0 status byte.
C1_Witness ==
  /\ pushed = <<224, 1, 0, 127, 1>>
  /\ log[3] = <<Ev("PitchBend", <<0, 128>>)>>
  /\ log[5] = <<Ev("PitchBend", <<0, 16257>>)>>
  /\ running_status_ = 224

\* C2: a realtime byte (>= 0xf8) leaves running_status_, data_, data_size_ and
\* expected_data_size_ unchanged; and the non-realtime events of a recorded
\* stream are those of the same stream with its realtime bytes removed.
C2_RealtimeFrame ==
  /\ [][byte' >= 248 =>
          UNCHANGED <<running_status_, data_, data_size_, expected_data_size_>>]_vars
  /\ [](\A d0 \in InitialData :
          SelectSeq(Flatten(log), NotRealtimeEvent)
            = RunEvents(ParserState(0, d0, 0, 0), SelectSeq(pushed, NotRealtimeByte)))

\* A clock between the two data bytes of a message, and inside a sysex run.
C2_Witness ==
  /\ pushed = <<240, 64, 248, 64, 144>>
  /\ log[3] = <<Ev("Clock", <<>>)>>
  /\ log[4] = <<Ev("SysExByte", <<64>>)>>
  /\ log[5] = <<Ev("SysExEnd", <<>>)>>

\* C3 as stated: every byte 0xf8..0xff makes exactly one Device:: call.
C3_EveryRealtimeByteOneEvent ==
  byte >= 248 => Len(events) = 1

\* C3, amended: 0xf8, 0xfa, 0xfb, 0xfc, 0xfe, 0xff make exactly one Device::
\* call each (Clock, Start, Continue, Stop, ActiveSensing, Reset); the
\* undefined realtime bytes 0xf9 and 0xfd make none.
C3_RealtimeEvents ==
  /\ byte = 248 => events = <<Ev("Clock", <<>>)>>
  /\ byte = 249 => events = <<>>
  /\ byte = 250 => events = <<Ev("Start", <<>>)>>
  /\ byte = 251 => events = <<Ev("Continue", <<>>)>>
  /\ byte = 252 => events = <<Ev("Stop", <<>>)>>
  /\ byte = 253 => events = <<>>
  /\ byte = 254 => events = <<Ev("ActiveSensing", <<>>)>>
  /\ byte = 255 => events = <<Ev("Reset", <<>>)>>

\* 0xfd pushed between the data bytes of a message: no call is made.
C3_Witness ==
  /\ byte = 253
  /\ events = <<>>
  /\ data_size_ = 1
  /\ expected_data_size_ = 2

C5_Status90IsNoteOn ==
  /\ \A i \in 1..Len(pushed) :
       (Hi(pushed[i]) = 144 /\ DataFollow(i, 2)) =>
         log[i + 2] = <<Ev("NoteOn", <<Lo(pushed[i]), pushed[i + 1], pushed[i + 2]>>)>>
  /\ pushed = <<144, 64, 127, 60, 0>> =>
       Flatten(log) = <<Ev("NoteOn", <<0, 64, 127>>), Ev("NoteOn", <<0, 60, 0>>)>>

\* C6: a message under status 0x8n with data (d0, d1) is dispatched as
\* NoteOn(n, d0, d1) when d1 is nonzero and as NoteOff(n, d0, 0) when d1 is
\* zero, and nothing else is emitted for it.
C6_Status80 ==
  \A i \in 1..Len(pushed) :
    (Hi(pushed[i]) = 128 /\ DataFollow(i, 2)) =>
      /\ log[i + 1] = <<>>
      /\ log[i + 2] =
           IF pushed[i + 2] # 0
           THEN <<Ev("NoteOn", <<Lo(pushed[i]), pushed[i + 1], pushed[i + 2]>>)>>
           ELSE <<Ev("NoteOff", <<Lo(pushed[i]), pushed[i + 1], 0>>)>>

\* Both branches under one 0x80 status byte.
C6_Witness ==
  /\ pushed = <<128, 60, 127, 60, 0>>
  /\ log[3] = <<Ev("NoteOn", <<0, 60, 127>>)>>
  /\ log[5] = <<Ev("NoteOff", <<0, 60, 0>>)>>

\* The channel-mode operation of each reserved controller number.
ChannelModeOp(c) ==
  CASE c = 120 -> "AllSoundOff"
    [] c = 121 -> "ResetAllControllers"
    [] c = 122 -> "LocalControl"
    [] c = 123 -> "AllNotesOff"
    [] c = 124 -> "OmniModeOff"
    [] c = 125 -> "OmniModeOn"
    [] c = 126 -> "MonoModeOn"
    [] c = 127 -> "PolyModeOn"

\* C7: a message under status 0xbn whose first data byte is in 0x78..0x7f is
\* dispatched as the channel-mode operation of that number on channel n, and
\* never as ControlChange; any other first data byte yields
\* ControlChange(n, d0, d1).  [0xb0, 0x7b, 0x00] yields AllNotesOff(0).
C7_ChannelMode ==
  /\ \A i \in 1..Len(pushed) :
       (Hi(pushed[i]) = 176 /\ DataFollow(i, 2)) =>
         LET n == Lo(pushed[i])
             d0 == pushed[i + 1]
             d1 == pushed[i + 2]
         IN  /\ log[i + 1] = <<>>
             /\ Len(log[i + 2]) = 1
             /\ IF d0 \in 120..127
                THEN /\ log[i + 2][1].op = ChannelModeOp(d0)
                     /\ log[i + 2][1].args[1] = n
                ELSE log[i + 2][1] = Ev("ControlChange", <<n, d0, d1>>)
  /\ pushed = <<176, 123, 0>> => log[3] = <<Ev("AllNotesOff", <<0>>)>>

C7_Witness ==
  /\ pushed = <<176, 123, 0>>
  /\ log[3] = <<Ev("AllNotesOff", <<0>>)>>

\* C8: data_size_ <= expected_data_size_ <= 2, running_status_ is 0 or has
\* bit 7 set, and a data byte is always stored at an index below 2.
C8_ParserInvariant ==
  /\ data_size_ <= expected_data_size_
  /\ expected_data_size_ <= 2
  /\ (running_status_ = 0 \/ running_status_ \in 128..255)
  /\ (slot # NoSlot => slot \in 0..1)

\* The second data byte of a two-byte message has just been stored.
C8_Witness ==
  /\ slot = 1
  /\ byte < 128
  /\ running_status_ \in 128..239
  /\ data_size_ = 0

\* C9: the push that dispatches a message of status 0xf1..0xf7 leaves
\* running_status_ at 0 (0xf4..0xf7 on the status byte itself, 0xf1..0xf3 on
\* their last data byte); and with running_status_ = 0 a data byte d makes
\* exactly the one call BozoByte(d) and leaves running_status_ at 0.
C9_NoRunningStatusAfterSystemCommon ==
  [][ /\ byte' \in 244..247 => running_status_' = 0
      /\ (running_status_ \in 241..243 /\ byte' \in 0..127
            /\ data_size_ + 1 >= expected_data_size_) => running_status_' = 0
      /\ (running_status_ = 0 /\ byte' \in 0..127) =>
           /\ events' = <<Ev("BozoByte", <<byte'>>)>>
           /\ running_status_' = 0
    ]_vars

\* Song select (0xf3) with its data byte, then two stray data bytes.
C9_Witness ==
  /\ pushed = <<243, 0, 64, 0>>
  /\ log[2] = <<>>
  /\ log[3] = <<Ev("BozoByte", <<64>>)>>
  /\ log[4] = <<Ev("BozoByte", <<0>>)>>
  /\ running_status_ = 0
----------------------------------------------------------------------------
(* Properties of Display *)

\* C10: an Update called while the serial output has fewer than 3 free bytes
\* writes no byte and leaves remote_, scan_position_,
\* scan_position_last_write_, blink_clock_, blink_, status_ and the output
\* buffer unchanged, whatever the differences between local_ and remote_.
C10_UpdateSkipsWhenFull ==
  [][(op' = "Update" /\ kTxBufferSize - tx_buffered < 3) =>
       /\ emitted' = <<>>
       /\ UNCHANGED <<remote_, scan_position_, scan_position_last_write_,
                      blink_clock_, blink_, status_, tx_buffered,
                      local_, cursor_position_>>]_vars

\* A skipped Update with a pending difference at the scan position and a
\* pending status overlay.
C10_Witness ==
  /\ op = "Update"
  /\ kTxBufferSize - tx_buffered < 3
  /\ emitted = <<>>
  /\ local_[scan_position_] # remote_[scan_position_]
  /\ status_ # 0

\* C11: an Update never emits more bytes than the serial output can accept:
\* it emits 0, 1 or 3 bytes, a nonzero number only when at least 3 bytes were
\* free, and the number of buffered bytes never exceeds the capacity.
C11_NeverOverfills ==
  [][/\ tx_buffered' <= kTxBufferSize
     /\ op' = "Update" =>
          /\ Len(emitted') \in {0, 1, 3}
          /\ Len(emitted') > 0 => kTxBufferSize - tx_buffered >= 3
          /\ Len(emitted') <= kTxBufferSize - tx_buffered
          /\ tx_buffered' = tx_buffered + Len(emitted')]_vars

\* An Update filled the serial output to its capacity with a 3-byte emission.
C11_Witness ==
  op = "Update" /\ Len(emitted) = 3 /\ tx_buffered = kTxBufferSize

\* C12 as stated: once remote_ has converged to the text written in local_, an
\* Update that runs transmits nothing (writing the same text again leaves
\* local_ as it is, so the pass that follows starts from the converged page).
C12_ConvergedPassIsSilent ==
  [][(remote_ = local_ /\ Ran) => emitted' = <<>>]_vars

\* C12, amended: writing the same text again leaves local_ unchanged, and when
\* remote_ equals local_, the cursor is outside the page and no status overlay
\* is pending, an Update that runs transmits nothing and leaves the page
\* converged, so a full pass transmits zero bytes.
C12_FixedPoint ==
  /\ [](\A line \in Lines, text \in Texts :
         PrintedPage(PrintedPage(local_, line, text), line, text) =
           PrintedPage(local_, line, text))
  /\ [][(/\ remote_ = local_
         /\ cursor_position_ >= lcd_buffer_size
         /\ status_ = 0
         /\ Ran)
        => /\ emitted' = <<>>
           /\ remote_' = local_'
           /\ status_' = 0
           /\ tx_buffered' = tx_buffered]_vars

\* A text was written, the page converged, and an Update ran without
\* transmitting.
C12_Witness ==
  /\ op = "Update"
  /\ tx_buffered = 0
  /\ emitted = <<>>
  /\ remote_ = local_
  /\ local_[0] = 65
  /\ cursor_position_ >= lcd_buffer_size
  /\ status_ = 0
  /\ calls = MaxCalls

----------------------------------------------------------------------------
(* Properties of the passes of Update *)

\* C13 as stated: within lcd_buffer_size Updates that ran after the last
\* writer call, remote_ equalled the resolved page at some point.
C13_ConvergedWithinOnePass == ticks = lcd_buffer_size => met

\* C13, amended: after lcd_buffer_size consecutive Updates that ran since the
\* last writer call, remote_ equals the resolved page (local_ under the cursor
\* and status overlays) at every cell, provided the resolved page did not
\* change during those Updates (no inversion of blink_ under a shown cursor,
\* no expiry of a shown status glyph).
C13_BoundedConvergence ==
  (ticks = lcd_buffer_size /\ ~changed) =>
    \A i \in Cells :
      remote_[i] = IF i = cursor_position_ /\ blink_ # 0 THEN 255
                   ELSE IF status_ # 0 /\ (i = 0 \/ i = width - 1) /\ local_[i] = 32
                   THEN status_ - 1
                   ELSE local_[i]

\* One full pass after the last writer call, with a text written and the
\* cursor glyph shown, converged.
C13_Witness ==
  /\ ticks = lcd_buffer_size
  /\ ~changed
  /\ calls = MaxCalls
  /\ cursor_position_ = 0
  /\ blink_ # 0
  /\ remote_[0] = 255
  /\ \E i \in Cells : local_[i] # 32 /\ remote_[i] = local_[i]

----------------------------------------------------------------------------
(* Properties of the blink clock *)

----------------------------------------------------------------------------
(* Properties of the bytes on the wire *)

\* C15 as stated: what an Update emits is a printable byte 0x20..0x7e,
\* alone or after the escape byte 0xfe and an address byte.
C15_OnlyPrintableCharacters ==
  \/ emitted = <<>>
  \/ Len(emitted) = 1 /\ emitted[1] \in 32..126
  \/ Len(emitted) = 3 /\ emitted[1] = 254 /\ emitted[3] \in 32..126

\* C15, amended: what an Update emits is one character byte, alone or after
\* the escape byte 0xfe and an address byte with bit 7 set; the character byte
\* is the cursor glyph 0xff, the status flag, or a byte of the page, which is
\* never 0x00, 0x08..0x1f, 0x7c or 0xfe but may be a non-printable byte that
\* Print stores (here the custom glyph 0x07).
C15_WireBytes ==
  LET IsCharacter(c) ==
        \/ c = 255
        \/ c \in 1..7
        \/ c \in 32..126 /\ c # 124
  IN  \/ emitted = <<>>
      \/ Len(emitted) = 1 /\ IsCharacter(emitted[1])
      \/ /\ Len(emitted) = 3
         /\ emitted[1] = 254
         /\ emitted[2] \in 128..255
         /\ IsCharacter(emitted[3])

\* The cursor glyph went out after a reposition command, over a page holding
\* a custom glyph.
C15_Witness ==
  /\ op = "Update"
  /\ emitted = <<254, 128, 255>>
  /\ \E i \in Cells : remote_[i] = 7

\* C16: the address byte of a reposition command has bit 7 set and packs the
\* cell just written: its column in the low bits, its row as an offset of 64
\* (0x80 + column on row 0, 0xc0 + column on row 1); no other cell has the
\* same address byte.
C16_AddressByte ==
  /\ (op = "Update" /\ Len(emitted) = 3) =>
       LET cell == scan_position_last_write_
           row == cell \div width
           column == cell % width
       IN  /\ emitted[2] = 128 + 64 * row + column
           /\ emitted[2] \in 128..255
           /\ row = 0 => emitted[2] = 128 + column
           /\ row = 1 => emitted[2] = 192 + column
           /\ remote_[cell] = emitted[3]
           /\ \A other \in Cells \ {cell} :
                CursorMoveArgument(other) # emitted[2]

\* A reposition to column 0 of row 1 went out before the text written there.
C16_Witness ==
  op = "Update" /\ emitted = <<254, 192, 65>> /\ scan_position_last_write_ = width

----------------------------------------------------------------------------
(* Properties of Print *)

\* The number of characters Print copies: up to the first null, width at most.
CopiedLength(text) ==
  LET nulls == {k \in 1..Len(text) : text[k] = 0}
      first == CHOOSE k \in nulls : \A m \in nulls : k <= m
  IN  IF first - 1 < width THEN first - 1 ELSE width

\* The character stored for a character of the text.
StoredCharacter(c) == IF c \in 8..31 \/ c = 124 \/ c = 254 THEN 32 ELSE c

\* The page after text was written on a line, cell by cell.
WrittenPage(page, line, text) ==
  [i \in Cells |->
     IF i \div width = line /\ i % width < CopiedLength(text)
     THEN StoredCharacter(text[(i % width) + 1])
     ELSE page[i]]

\* C17: Print(line, text) copies the characters of text from column 0 of the
\* line, a character in 0x08..0x1f, 0x7c or 0xfe as a blank and any other
\* unchanged, up to the first null or width characters, whichever comes
\* first; every other cell of the page keeps its content.
C17_WriteRow ==
  /\ [](\A line \in Lines, text \in PrintTexts :
          PrintedPage(local_, line, text) = WrittenPage(local_, line, text))
  /\ [][op' = "Print" =>
          \E line \in Lines, text \in PrintTexts :
            local_' = WrittenPage(local_, line, text)]_vars

\* A short text was written over a longer one: the cell past its null keeps
\* the character 0x7f written before.
C17_Witness ==
  op = "Print" /\ calls = 2 /\ local_[0] = 65 /\ local_[1] = 127

----------------------------------------------------------------------------
(* Properties of the scan and of the status overlay *)

\* C18: set_status leaves a status overlay pending whose glyph is the flag it
\* was given, blink_clock_ at 0 and scan_position_ at column 0 of row 0 if
\* local_ is blank there, else at the last column of row 0; the next Update
\* that runs examines a status slot, and if local_ is blank there and the slot
\* is not the cursor cell with blink_ on, the character it resolves is the flag.
C18_StatusShownNext ==
  [][/\ op' = "set_status" =>
          /\ status_' # 0
          /\ status_' - 1 \in WrapStatuses
          /\ blink_clock_' = 0
          /\ scan_position_' = IF local_[0] = 32 THEN 0 ELSE width - 1
     /\ (run = 0 /\ Ran) =>
          /\ scan_position_ \in {0, width - 1}
          /\ (/\ local_[scan_position_] = 32
              /\ ~(scan_position_ = cursor_position_ /\ blink_' # 0))
             => remote_'[scan_position_] \in WrapStatuses]_vars

\* C19: a pending status overlay is cleared by the Update that is the
\* BlinkPeriod-th to run since set_status and by no earlier step; while no
\* overlay is pending an Update resolves the cursor glyph or the character of
\* local_, never a status glyph; and the mirror at each status slot holds the
\* character of local_ again some time after the overlay was set.
C19_StatusIsTransient ==
  /\ [][status_ # 0 =>
          /\ Ran => (status_' = 0 <=> since_reset + 1 = BlinkPeriod)
          /\ (~Ran /\ op' # "set_status") => status_' = status_]_vars
  /\ [][(status_' = 0 /\ Ran) =>
          remote_'[scan_position_] =
            IF scan_position_ = cursor_position_ /\ blink_' # 0
            THEN 255
            ELSE local_[scan_position_]]_vars
  /\ (status_ # 0) ~> (status_ = 0 /\ remote_[0] = local_[0])
  /\ (status_ # 0) ~> (status_ = 0 /\ remote_[width - 1] = local_[width - 1])

\* The overlay has just expired, one blink period after set_status: its glyph
\* is still in the mirror at the blank status slot.
C19_Witness ==
  /\ op = "Update"
  /\ status_ = 0
  /\ blink_clock_ = 0
  /\ since_reset = BlinkPeriod
  /\ local_[0] = 32
  /\ remote_[0] = 42

\* C20 as stated: an Update that runs moves scan_position_ to the next cell,
\* wrapping after the last one, and any lcd_buffer_size consecutive Updates
\* that ran examined every cell, whatever writer calls came between them.
C20_EveryCellInAnyWindow ==
  /\ [][Ran => scan_position_' = (scan_position_ + 1) % lcd_buffer_size]_vars
  /\ [](Len(recent) = lcd_buffer_size =>
          \A i \in Cells : \E k \in 1..Len(recent) : recent[k] = i)

\* C20, amended: an Update that runs moves scan_position_ to the next cell,
\* wrapping after the last one; Print and set_cursor_position leave it alone;
\* and any lcd_buffer_size consecutive Updates that ran with no set_status
\* between them examined every cell exactly once.
C20_RoundRobin ==
  /\ [][/\ Ran => scan_position_' = (scan_position_ + 1) % lcd_buffer_size
        /\ op' \in {"Print", "set_cursor_position", "Tick"} =>
             scan_position_' = scan_position_
        /\ (op' = "Update" /\ ~Ran) => scan_position_' = scan_position_]_vars
  /\ []((Len(recent) = lcd_buffer_size /\ run = lcd_buffer_size) =>
          /\ \A i \in Cells : \E k \in 1..Len(recent) : recent[k] = i
          /\ recent[Len(recent)] = (scan_position_ + lcd_buffer_size - 1)
                                     % lcd_buffer_size)

\* A full window of Updates after a set_status that sent the scan to the last
\* column of row 0: it starts there and covers every cell.
C20_Witness ==
  /\ op = "Update"
  /\ Len(recent) = lcd_buffer_size
  /\ run = lcd_buffer_size
  /\ recent[1] = width - 1
  /\ local_[0] # 32
  /\ calls = MaxCalls

----------------------------------------------------------------------------
(* Properties of the resolved character *)

\* The status glyph is in the mirror at a cell that an Update examined since
\* the last set_status.
ShownSinceStatus(cell) ==
  /\ remote_[cell] = status_ - 1
  /\ \E k \in 1..Len(recent) : k > Len(recent) - run /\ recent[k] = cell

\* C21: while a status overlay is pending, its glyph is resolved at one status
\* slot only: it is never in the mirror at both column 0 and the last column
\* of row 0 from Updates of the same pending period.
C21_OneStatusSlot ==
  status_ # 0 => ~(ShownSinceStatus(0) /\ ShownSinceStatus(width - 1))

\* C22: the character an Update that runs resolves for the cell it examines,
\* which is in the mirror afterwards, is (a) the cursor glyph if the cell is
\* the cursor position and blink_ is on, (b) else the status glyph if an
\* overlay is pending, the cell is column 0 or the last column of row 0 and
\* local_ is blank there, (c) else the character of local_; blink_ and status_
\* being those the Update has after advancing blink_clock_.
C22_ResolutionPriority ==
  [][Ran =>
       LET cell == scan_position_
       IN  /\ (cell = cursor_position_ /\ blink_' # 0)
                => remote_'[cell] = 255
           /\ (/\ ~(cell = cursor_position_ /\ blink_' # 0)
               /\ status_' # 0
               /\ cell \in {0, width - 1}
               /\ local_[cell] = 32)
                => remote_'[cell] = status_' - 1
           /\ (/\ ~(cell = cursor_position_ /\ blink_' # 0)
               /\ ~(status_' # 0 /\ cell \in {0, width - 1} /\ local_[cell] = 32))
                => remote_'[cell] = local_[cell]]_vars

\* The cursor glyph was resolved at a blank status slot while an overlay was
\* pending.
C22_Witness ==
  /\ op = "Update"
  /\ status_ # 0
  /\ cursor_position_ = 0
  /\ blink_ # 0
  /\ local_[0] = 32
  /\ scan_position_ = 1
  /\ emitted = <<254, 128, 255>>

\* C23: an Update that runs transmits exactly when the character it resolves
\* differs from the mirror at the scan cell or the scan cell is the cursor
\* position; it then writes the character alone if the last written position
\* is the cell just before and the scan cell is not in column 0, and else
\* 0xfe, the address of the cell and the character; the first transmission
\* after Init writes the three bytes.
C23_TransmitDecision ==
  [][Ran =>
       LET cell == scan_position_
           character ==
             IF cell = cursor_position_ /\ blink_' # 0 THEN 255
             ELSE IF status_' # 0 /\ cell \in {0, width - 1} /\ local_[cell] = 32
                  THEN status_' - 1
                  ELSE local_[cell]
           address == 128 + 64 * (cell \div width) + (cell % width)
       IN  /\ emitted' # <<>> <=>
                (character # remote_[cell] \/ cell = cursor_position_)
           /\ emitted' # <<>> =>
                /\ emitted' = IF /\ scan_position_last_write_ = cell - 1
                                 /\ cell % width # 0
                              THEN <<character>>
                              ELSE <<254, address, character>>
                /\ scan_position_last_write_' = cell
                /\ scan_position_last_write_ = 255 => Len(emitted') = 3
           /\ emitted' = <<>> =>
                scan_position_last_write_' = scan_position_last_write_]_vars

\* The character of the last column of row 0 went out alone, right after the
\* cell before it.
C23_Witness ==
  op = "Update" /\ emitted = <<32>> /\ scan_position_last_write_ = width - 1

----------------------------------------------------------------------------
(* Further properties of MidiStreamParser *)

\* C24: a status byte in 0x80..0xf7 pushed while a message is partly
\* accumulated (0 < data_size_ < expected_data_size_) sets data_size_ to 0 and
\* emits nothing for the abandoned message: the only events of that push are
\* those of the new status byte (SysExStart for 0xf0, SysExEnd for 0xf7); and
\* in a recorded stream the data bytes that follow are decoded under the new
\* status from the bytes pushed after it.
C24_PartialMessageAbandoned ==
  /\ [][(/\ 0 < data_size_
         /\ data_size_ < expected_data_size_
         /\ byte' \in 128..247)
        => /\ data_size_' = 0
           /\ events' = IF byte' = 240 THEN <<Ev("SysExStart", <<>>)>>
                        ELSE IF byte' = 247 THEN <<Ev("SysExEnd", <<>>)>>
                        ELSE <<>>
           /\ running_status_' = IF byte' >= 244 THEN 0 ELSE byte'
           /\ data_' = data_]_vars
  /\ [](\A i \in 3..Len(pushed) :
          (/\ Hi(pushed[i - 2]) \in {128, 144, 160, 176, 224}
           /\ pushed[i - 1] < 128
           /\ pushed[i] \in 128..247)
          => /\ (Hi(pushed[i]) \in {128, 144, 160, 176, 224} /\ DataFollow(i, 2)) =>
                  /\ log[i + 1] = <<>>
                  /\ log[i + 2] = MessageReceived(pushed[i],
                                    DataOf(pushed[i + 1], pushed[i + 2]))
                  /\ Len(log[i + 2]) = 1
             /\ (Hi(pushed[i]) \in {192, 208} /\ DataFollow(i, 1)) =>
                  /\ log[i + 1] = MessageReceived(pushed[i],
                                    DataOf(pushed[i + 1], 0))
                  /\ Len(log[i + 1]) = 1)

\* A note-off that lost its second data byte to an aftertouch status: only
\* the aftertouch is emitted, from its own two data bytes.
C24_Witness ==
  /\ pushed = <<143, 0, 160, 64, 0>>
  /\ log = << <<>>, <<>>, <<>>, <<>>, <<Ev("Aftertouch", <<0, 64, 0>>)>> >>

\* The number of data bytes that complete a message of each status.
DataBytesOf(status) ==
  IF Hi(status) \in {128, 144, 160, 176, 224} \/ status \in {241, 242} THEN 2
  ELSE IF Hi(status) \in {192, 208} \/ status \in {240, 243} THEN 1
  ELSE 0

\* A data byte pushed under a running status is dispatched exactly when it
\* brings the data count to the number of data bytes of that status: one
\* event for a channel message, one SysExByte carrying the byte under 0xf0,
\* and the end of the message without a Device:: call under 0xf1..0xf3; a
\* data byte that does not complete the message emits nothing.
DispatchOnExpectedCount ==
  [][(running_status_ # 0 /\ byte' < 128) =>
       IF data_size_ + 1 = DataBytesOf(running_status_)
       THEN /\ data_size_' = 0
            /\ running_status_' = IF running_status_ > 240 THEN 0 ELSE running_status_
            /\ Len(events') = IF running_status_ > 240 THEN 0 ELSE 1
            /\ running_status_ = 240 => events' = <<Ev("SysExByte", <<byte'>>)>>
            /\ running_status_ < 240 =>
                 events' = MessageReceived(running_status_, data_')
            /\ data_'[DataBytesOf(running_status_) - 1] = byte'
       ELSE /\ data_size_' = data_size_ + 1
            /\ data_size_' < DataBytesOf(running_status_)
            /\ running_status_' = running_status_
            /\ events' = <<>>]_vars

\* A status byte 0xf4..0xf7 is dispatched during its own push.
DispatchOfDatalessStatus ==
  [][byte' \in 244..247 =>
       /\ running_status_' = 0
       /\ data_size_' = 0
       /\ expected_data_size_' = 0
       /\ events' = (IF running_status_ = 240 THEN <<Ev("SysExEnd", <<>>)>> ELSE <<>>)
                    \o (IF byte' = 247 THEN <<Ev("SysExEnd", <<>>)>> ELSE <<>>)]_vars

\* C25 as stated: a message is dispatched on the push that completes its data
\* bytes, and the push of a channel-voice status byte emits no event.
C25_StatusPushIsSilent ==
  /\ DispatchOnExpectedCount
  /\ DispatchOfDatalessStatus
  /\ [][byte' \in 128..239 => events' = <<>>]_vars

\* C25, amended: a message is dispatched on the push that completes its data
\* bytes (2 for 0x8n, 0x9n, 0xan, 0xbn, 0xen, 0xf1, 0xf2; 1 for 0xcn, 0xdn,
\* 0xf3 and for each byte under 0xf0; 0 for 0xf4..0xf7), never earlier or
\* later, and the push of a channel-voice status byte starts a message without
\* dispatching one: its only event is the SysExEnd of a sysex run it ends.
C25_DispatchTiming ==
  /\ DispatchOnExpectedCount
  /\ DispatchOfDatalessStatus
  /\ [][byte' \in 128..239 =>
          /\ events' = IF running_status_ = 240 THEN <<Ev("SysExEnd", <<>>)>>
                       ELSE <<>>
          /\ running_status_' = byte'
          /\ data_size_' = 0
          /\ expected_data_size_' = DataBytesOf(byte')]_vars

\* A pitch bend was dispatched on its second data byte.
C25_Witness ==
  /\ byte = 127
  /\ running_status_ = 224
  /\ data_size_ = 0
  /\ data_[0] = 1
  /\ events = <<Ev("PitchBend", <<0, 255>>)>>

\* The SysExStart and SysExEnd calls of a recorded stream, in order.
IsFraming(e) == e.op \in {"SysExStart", "SysExEnd"}
Framing == SelectSeq(Flatten(log), IsFraming)

\* C27: the sysex framing events are well bracketed: SysExStart and SysExEnd
\* strictly alternate, beginning with SysExStart, so a run opened by 0xf0 and
\* closed by 0xf7 yields exactly one SysExEnd.
C27_WellBracketed ==
  \A k \in 1..Len(Framing) :
    Framing[k].op = IF k % 2 = 1 THEN "SysExStart" ELSE "SysExEnd"

\* The SysExStart and SysExEnd calls made before push i of a recorded stream.
FramingBefore(i) == SelectSeq(Flatten(SubSeq(log, 1, i - 1)), IsFraming)

\* C28: a SysExByte event is emitted only while a sysex run is open.  The
\* push that emits it is the push of a data byte, emits nothing else, and the
\* event carries that byte; the last framing event before it is a SysExStart
\* (no SysExEnd in between); a data byte pushed when the last framing event
\* is a SysExEnd, or when there is none, emits no SysExByte.
C28_SysExByteInsideRun ==
  \A i \in 1..Len(log) :
    LET open == /\ FramingBefore(i) # <<>>
                /\ FramingBefore(i)[Len(FramingBefore(i))].op = "SysExStart"
    IN  /\ (\E k \in 1..Len(log[i]) : log[i][k].op = "SysExByte") =>
             /\ open
             /\ pushed[i] < 128
             /\ log[i] = <<Ev("SysExByte", <<pushed[i]>>)>>
        /\ (pushed[i] < 128 /\ open) => log[i] = <<Ev("SysExByte", <<pushed[i]>>)>>

\* A data byte of a run interrupted by a clock byte, then a data byte after
\* the run was ended by 0xf7.
C28_Witness ==
  /\ pushed = <<240, 248, 64, 247, 64>>
  /\ log[3] = <<Ev("SysExByte", <<64>>)>>
  /\ log[5] = <<Ev("BozoByte", <<64>>)>>

----------------------------------------------------------------------------
(* Properties of the transmitted bytes *)

\* C29: the character byte of a transmit (the last byte Update hands to the
\* serial output) is never 0xfe or 0x7c, the command prefixes of the display.
C29_NoEscapeCharacter ==
  emitted # <<>> => emitted[Len(emitted)] \notin {254, 124}

\* C30: buffer ownership.  Update (and the serial output) never modifies
\* local_ or cursor_position_; Print, set_cursor_position and set_status never
\* modify remote_ or scan_position_last_write_ and hand no byte to the serial
\* output; Print changes nothing but local_, and in local_ only cells of one
\* row, which for every page, line < height and text is the row of line.
C30_BufferOwnership ==
  /\ [][/\ op' \in {"Update", "Tick"} =>
             local_' = local_ /\ cursor_position_' = cursor_position_
        /\ WriterCalled =>
             /\ remote_' = remote_
             /\ scan_position_last_write_' = scan_position_last_write_
             /\ tx_buffered' = tx_buffered
             /\ emitted' = <<>>
        /\ op' = "Print" =>
             /\ \E line \in Lines : \A cell \in Cells :
                  cell \div width # line => local_'[cell] = local_[cell]
             /\ UNCHANGED <<cursor_position_, status_, scan_position_,
                            blink_, blink_clock_>>
        /\ op' = "set_cursor_position" => local_' = local_
        /\ op' = "set_status" =>
             local_' = local_ /\ cursor_position_' = cursor_position_]_vars
  /\ [](\A line \in Lines, text \in Texts, cell \in Cells :
          cell \div width # line =>
            PrintedPage(local_, line, text)[cell] = local_[cell])

\* A Print on the second row after the first cell was transmitted: the first
\* row and the mirror are as the Update left them.
C30_Witness ==
  /\ op = "Print"
  /\ local_ = [cell \in Cells |-> IF cell = width THEN 65 ELSE 32]
  /\ remote_[0] = 32
  /\ scan_position_last_write_ = 0
  /\ tx_buffered = 3

\* C26: mirror faithfulness.  With Update the only writer of the serial
\* output, remote_ equals what the display module shows at every cell that
\* was transmitted at least once, and remote_ changes only in an Update that
\* emitted bytes, and then only at the cell it examined.
C26_MirrorFaithful ==
  /\ [](\A cell \in sent : remote_[cell] = lcd[cell])
  /\ [][remote_' # remote_ =>
          /\ op' = "Update"
          /\ emitted' # <<>>
          /\ \A cell \in Cells \ {scan_position_} : remote_'[cell] = remote_[cell]]_vars

\* Every cell was transmitted, the status glyph was then sent to the last
\* column of the first row without a cursor move, and the display module
\* shows remote_.
C26_Witness ==
  /\ sent = Cells
  /\ emitted = <<42>>
  /\ remote_[width - 1] = 42
  /\ lcd = remote_

============================================================================
